---- MODULE Spec2Model ----
\* A model of revisor.py: the capture -> revise -> paste pipeline of main(),
\* with ask_llm's response parsing as a pure operator over a JSON-like value.
EXTENDS Integers, Sequences, FiniteSets, TLC

VARIABLES
    pc,          \* position in main(): the next step to run, or "exited"
    API_KEY,     \* os.getenv("OPENAI_API_KEY"): "<unset>", "" or a key
    ECHO,        \* REVISOR_ECHO == "1"
    XDG,         \* the value of XDG_SESSION_TYPE in the environment
    path,        \* the commands `command -v` finds
    sys_prompt,  \* main's sys_prompt
    src,         \* main's src
    outcome,     \* what the curl subprocess of ask_llm produced
    llm,         \* the value ask_llm returned
    revised,     \* main's revised
    calls,       \* external actions of the run, in order
    logs,        \* entries appended to the log file, in order
    stdout,      \* characters written to standard output
    pasted,      \* the arguments paste() was called with, in order
    clipboard,   \* the texts written to the clipboard, in order
    exitCode     \* the process exit code, -1 while running

vars == <<pc, API_KEY, ECHO, XDG, path, sys_prompt, src, outcome, llm, revised,
          calls, logs, stdout, pasted, clipboard, exitCode>>

----------------------------------------------------------------------------
\* Text: a string is a sequence of characters.

\* Longest captured text, response text and prompt file the model draws.
MaxLen == 2

NL == "\n"
Chars == {"a", " "}
Whitespace == {" ", NL, "\t"}

Strings == UNION {[1..n -> Chars] : n \in 0..MaxLen}

\* str.strip(): without its leading and trailing whitespace
strip(s) ==
    LET keep == {i \in 1..Len(s) : s[i] \notin Whitespace}
    IN  IF keep = {} THEN <<>>
        ELSE SubSeq(s, CHOOSE i \in keep : \A j \in keep : i <= j,
                       CHOOSE i \in keep : \A j \in keep : j <= i)

\* `not s.strip()`
blank(s) == strip(s) = <<>>

\* sep.join(chunks)
RECURSIVE join(_, _)
join(sep, chunks) ==
    IF chunks = <<>> THEN <<>>
    ELSE IF Len(chunks) = 1 THEN chunks[1]
    ELSE chunks[1] \o <<sep>> \o join(sep, Tail(chunks))

----------------------------------------------------------------------------
\* The log file: one tag per entry, the variable parts left out.

run_log(o) == IF o.k = "timeout" THEN <<"TIMEOUT">> ELSE <<"NONZERO EXIT">>

----------------------------------------------------------------------------
\* ask_llm: the body curl prints, as a JSON-like value.
\* A field is absent, a string, or some other JSON value (null, a number, ...).

Absent == [k |-> "absent", v |-> <<>>]
Other  == [k |-> "other",  v |-> <<>>]
Str(s) == [k |-> "str",    v |-> s]

TextFields == {Absent, Other} \cup {Str(s) : s \in Strings}

\* A content block: its "type", and its "text" field.
Blocks ==
    {[type |-> "other", text |-> Absent]}
        \cup {[type |-> "output_text", text |-> f] : f \in TextFields}

\* An output item: a dict with a (possibly missing, read as []) content list of
\* at most one block, or a value that is no dict.
Items ==
    {[k |-> "other", content |-> <<>>]}
        \cup {[k |-> "dict", content |-> c] : c \in {<<>>} \cup {<<b>> : b \in Blocks}}

\* data["output"]: absent, not a list, or a list of at most two items.
OutputFields ==
    {Absent, Other}
        \cup {[k |-> "list", v |-> l] :
                l \in {<<>>} \cup {<<i>> : i \in Items}
                             \cup {<<i, j>> : i \in Items, j \in Items}}

\* data["choices"]: absent, an empty list, a list whose first choice holds a
\* message with string content, or a list whose first choice is malformed.
ChoicesFields ==
    {Absent, [k |-> "empty", v |-> <<>>], [k |-> "bad", v |-> <<>>]}
        \cup {[k |-> "list", v |-> s] : s \in Strings}

Dict(t, o, c) == [k |-> "dict", text |-> t, output |-> o, choices |-> c]
NoData(kind)  == [k |-> kind, text |-> Absent, output |-> Absent, choices |-> Absent]

\* What run(["bash","-lc",curl_cmd], timeout=60.0) produces: TimeoutExpired,
\* CalledProcessError (curl's transport errors exit nonzero), or a stdout that
\* is no JSON, JSON that is no object, or a JSON object.
Timeout     == [k |-> "timeout", body |-> NoData("none")]
NonzeroExit == [k |-> "nonzero", body |-> NoData("none")]
Ok(body)    == [k |-> "ok", body |-> body]

Failures == {Timeout, NonzeroExit, Ok(NoData("malformed")), Ok(NoData("nondict"))}

\* The three response shapes carrying t, alone.
TextShape(t)    == Ok(Dict(Str(t), Absent, Absent))
OutputShape(t)  ==
    Ok(Dict(Absent,
            [k |-> "list",
             v |-> <<[k |-> "dict",
                      content |-> <<[type |-> "output_text", text |-> Str(t)]>>]>>],
            Absent))
ChoicesShape(t) == Ok(Dict(Absent, Absent, [k |-> "list", v |-> t]))

\* Every outcome: the failures and every combination of the three fields.
CurlOutcomes ==
    Failures \cup {Ok(Dict(t, o, c)) :
                      t \in TextFields, o \in OutputFields, c \in ChoicesFields}

\* The outcomes the pipeline draws from: the failures, the empty object and
\* each single shape with each text.
MainOutcomes ==
    Failures \cup {Ok(Dict(Absent, Absent, Absent))}
             \cup {TextShape(t) : t \in Strings}
             \cup {OutputShape(t) : t \in Strings}
             \cup {ChoicesShape(t) : t \in Strings}

\* blk.get("text", "") of the output_text blocks of one item's content
RECURSIVE block_chunks(_)
block_chunks(content) ==
    IF content = <<>> THEN <<>>
    ELSE LET blk == Head(content)
         IN  (IF blk.type = "output_text"
                 THEN <<IF blk.text.k = "absent" THEN Str(<<>>) ELSE blk.text>>
                 ELSE <<>>)
             \o block_chunks(Tail(content))

\* the chunks list the two loops build
RECURSIVE output_chunks(_)
output_chunks(items) ==
    IF items = <<>> THEN <<>>
    ELSE block_chunks(Head(items).content) \o output_chunks(Tail(items))

\* item.get on a value that is no dict, or join over a chunk that is no str
output_raises(items) ==
    \/ \E i \in 1..Len(items) : items[i].k # "dict"
    \/ \E i \in 1..Len(output_chunks(items)) : output_chunks(items)[i].k # "str"

output_text(items) ==
    LET chunks == output_chunks(items)
    IN  strip(join(NL, [i \in 1..Len(chunks) |-> chunks[i].v]))

\* isinstance(data.get("text"), str) and data["text"].strip()
text_matches(data) == data.text.k = "str" /\ ~blank(data.text.v)

\* a variant that takes the output list only when it yields text
output_matches_nonempty(data) ==
    /\ data.output.k = "list"
    /\ ~output_raises(data.output.v)
    /\ output_text(data.output.v) # <<>>

\* "output" in data and isinstance(data["output"], list)
output_matches(data) == data.output.k = "list"

\* "choices" in data and data["choices"]
choices_matches(data) == data.choices.k \in {"list", "bad"}

\* a variant that returns the content as it came
chat_text_raw(data) == data.choices.v

\* data["choices"][0]["message"]["content"].strip()
chat_text(data) == strip(data.choices.v)

LlmError == [text |-> <<>>, log |-> <<"LLM error">>]

\* the body of ask_llm's try block, once json.loads has returned a dict
parse_response(data) ==
    IF text_matches(data) THEN
        [text |-> strip(data.text.v), log |-> <<"LLM text (from .text)">>]
    ELSE IF output_matches(data) THEN
        IF output_raises(data.output.v) THEN LlmError
        ELSE [text |-> output_text(data.output.v), log |-> <<"LLM text (/responses)">>]
    ELSE IF choices_matches(data) THEN
        IF data.choices.k = "bad" THEN LlmError
        ELSE [text |-> chat_text(data), log |-> <<"LLM text (/chat)">>]
    ELSE [text |-> <<>>, log |-> <<"LLM response parse failed">>]

\* ask_llm(system_prompt, user_text): the text returned and the entries logged
ask_llm(out) ==
    LET r == IF out.k # "ok" THEN
                 [text |-> <<>>, log |-> run_log(out) \o <<"LLM error">>]
             ELSE IF out.body.k # "dict" THEN LlmError
             ELSE LET p == parse_response(out.body)
                  IN  [text |-> p.text, log |-> <<"LLM response keys">> \o p.log]
    IN  [text |-> r.text, log |-> <<"LLM request">> \o r.log]


----------------------------------------------------------------------------
\* The environment and the clipboard tools.

SessionTypes == {"wayland", "WAYLAND", "x11"}
Tools == {"xclip", "wl-paste", "wl-copy"}

\* str.lower() on the session types drawn
lower(s) == IF s = "WAYLAND" THEN "wayland" ELSE s

\* os.getenv("XDG_SESSION_TYPE","").lower()
session == lower(XDG)

whereis(cmd) == cmd \in path

\* What a clipboard read through run(..., timeout=0.3) produces: a stdout,
\* TimeoutExpired or CalledProcessError.
ReadOutcomes ==
    {[k |-> "ok", v |-> s] : s \in Strings}
        \cup {[k |-> "timeout", v |-> <<>>], [k |-> "nonzero", v |-> <<>>]}

Nothing == [text |-> <<>>, calls |-> <<>>, log |-> <<>>]

grab_primary_x11(o) ==
    IF whereis("xclip") THEN
        IF o.k = "ok"
        THEN [text |-> o.v, calls |-> <<"xclip primary -o">>, log |-> <<"PRIMARY grabbed">>]
        ELSE [text |-> <<>>, calls |-> <<"xclip primary -o">>, log |-> run_log(o)]
    ELSE Nothing

grab_clipboard_x11(o) ==
    IF whereis("xclip") THEN
        IF o.k = "ok"
        THEN [text |-> o.v, calls |-> <<"xclip clipboard -o">>, log |-> <<"CLIPBOARD grabbed">>]
        ELSE [text |-> <<>>, calls |-> <<"xclip clipboard -o">>, log |-> run_log(o)]
    ELSE Nothing

x11_capture(o1, o2) ==
    LET p == grab_primary_x11(o1)
        c == IF blank(p.text) THEN grab_clipboard_x11(o2)
             ELSE [text |-> p.text, calls |-> <<>>, log |-> <<>>]
    IN  [text  |-> c.text,
         calls |-> p.calls \o c.calls,
         log   |-> p.log \o c.log \o <<"Captured (X11)">>]

\* one turn of wayland_capture's loop: the text kept, and whether it breaks
wl_attempt(o, cmd, tag) ==
    IF o.k = "ok" /\ ~blank(o.v)
    THEN [text |-> o.v, calls |-> <<cmd>>, log |-> <<tag>>]
    ELSE [text |-> <<>>, calls |-> <<cmd>>,
          log |-> IF o.k = "ok" THEN <<>> ELSE run_log(o)]

wayland_capture(o1, o2) ==
    LET r == IF whereis("wl-paste") THEN
                 LET a == wl_attempt(o1, "wl-paste", "Wayland CLIPBOARD grabbed")
                     b == wl_attempt(o2, "wl-paste --primary", "Wayland PRIMARY grabbed")
                 IN  IF a.text # <<>> THEN a
                     ELSE [text |-> b.text, calls |-> a.calls \o b.calls,
                           log |-> a.log \o b.log]
             ELSE Nothing
    IN  [text |-> r.text, calls |-> r.calls, log |-> r.log \o <<"Captured (Wayland)">>]

\* a variant that trusts the session type alone
use_wayland_by_session == session = "wayland"

\* capture's test: session == "wayland" and whereis("wl-paste")
use_wayland == session = "wayland" /\ whereis("wl-paste")

capture(o1, o2) ==
    IF use_wayland THEN wayland_capture(o1, o2) ELSE x11_capture(o1, o2)

paste_x11(text) ==
    IF whereis("xclip")
    THEN [writes |-> <<text>>, calls |-> <<"xclip clipboard -in">>, log |-> <<"Paste (X11)">>]
    ELSE [writes |-> <<>>, calls |-> <<>>,
          log |-> <<"Paste (X11)", "xclip missing; cannot set clipboard">>]

paste_wayland(text) ==
    IF whereis("wl-copy")
    THEN [writes |-> <<text>>, calls |-> <<"wl-copy">>, log |-> <<"Paste (Wayland)">>]
    ELSE [writes |-> <<>>, calls |-> <<>>, log |-> <<"Paste (Wayland)">>]

\* a variant that writes through both families
paste_both(text) ==
    [writes |-> paste_wayland(text).writes \o paste_x11(text).writes,
     calls  |-> paste_wayland(text).calls \o paste_x11(text).calls,
     log    |-> paste_wayland(text).log \o paste_x11(text).log]

paste(text) ==
    IF session = "wayland" /\ whereis("wl-copy") THEN paste_wayland(text)
    ELSE paste_x11(text)

\* play_notification_sound: the players found, whether a candidate sound file
\* exists, and whether Popen starts the player. The player launched, if any.
play_notification_sound(players, soundFile, launches) ==
    LET player == IF "paplay" \in players THEN "paplay"
                  ELSE IF "aplay" \in players THEN "aplay" ELSE "none"
    IN  IF player = "none" \/ ~soundFile \/ ~launches THEN <<>> ELSE <<player>>

\* print(text): the text and the end-of-line print appends
print_bare(text) == text

print(text) == text \o <<NL>>

\* variants of the empty-result fallback
fallback_stripped(rev, s) == IF blank(rev) THEN strip(s) ELSE rev
fallback_none(rev, s) == rev

\* if not revised.strip(): revised = src
fallback(rev, s) == IF blank(rev) THEN s ELSE rev

\* a variant that stops on the empty string only
no_source_empty(s) == s = <<>>

\* if not src.strip()
no_source(s) == blank(s)

\* a variant that tests for None only
key_missing_none(key) == key = "<unset>"

\* if not API_KEY
key_missing(key) == key \in {"<unset>", ""}

\* the instruction file: absent, readable with some contents, or one that
\* read_text cannot read or decode
PromptFiles ==
    {[k |-> "absent", v |-> <<>>], [k |-> "unreadable", v |-> <<>>],
     [k |-> "ok", v |-> <<" ", "p">>]}

DefaultPrompt == <<"R", "e", "v", "i", "s", "e">>

NoOutcome == [k |-> "none", body |-> NoData("none")]

----------------------------------------------------------------------------
\* main(), one action per step of the pipeline.

Init ==
    /\ pc = "start"
    /\ API_KEY \in {"<unset>", "", "sk"}
    /\ ECHO \in BOOLEAN
    /\ XDG \in SessionTypes
    /\ path \in SUBSET Tools
    /\ sys_prompt = <<>>
    /\ src = <<>>
    /\ outcome = NoOutcome
    /\ llm = <<>>
    /\ revised = <<>>
    /\ calls = <<>>
    /\ logs = <<>>
    /\ stdout = <<>>
    /\ pasted = <<>>
    /\ clipboard = <<>>
    /\ exitCode = -1

Exit(code) == pc' = "exited" /\ exitCode' = code

\* lines 204-208
Start ==
    /\ pc = "start"
    /\ IF key_missing(API_KEY)
       THEN logs' = Append(logs, "ERROR: OPENAI_API_KEY not set.") /\ Exit(1)
       ELSE logs' = Append(logs, "Start") /\ pc' = "read_prompt" /\ exitCode' = exitCode
    /\ UNCHANGED <<API_KEY, ECHO, XDG, path, sys_prompt, src, outcome, llm, revised,
                   calls, stdout, pasted, clipboard>>

\* line 210: read_prompt(); an exception of read_text reaches the interpreter,
\* which prints the traceback and exits 1
ReadPrompt ==
    /\ pc = "read_prompt"
    /\ \E f \in PromptFiles :
        CASE f.k = "absent" ->
                /\ sys_prompt' = DefaultPrompt
                /\ logs' = Append(logs, "Prompt file missing; using default.")
                /\ pc' = "capture" /\ exitCode' = exitCode
          [] f.k = "ok" ->
                /\ sys_prompt' = strip(f.v)
                /\ logs' = Append(logs, "Prompt loaded")
                /\ pc' = "capture" /\ exitCode' = exitCode
          [] f.k = "unreadable" ->
                /\ Exit(1)
                /\ UNCHANGED <<sys_prompt, logs>>
    /\ UNCHANGED <<API_KEY, ECHO, XDG, path, src, outcome, llm, revised,
                   calls, stdout, pasted, clipboard>>

\* lines 211-214
Capture ==
    /\ pc = "capture"
    /\ \E o1 \in ReadOutcomes, o2 \in ReadOutcomes :
        LET c == capture(o1, o2)
        IN  /\ src' = c.text
            /\ calls' = calls \o c.calls
            /\ IF no_source(c.text)
               THEN /\ logs' = logs \o c.log \o <<"No source text captured; abort.">>
                    /\ Exit(0)
               ELSE /\ logs' = logs \o c.log
                    /\ pc' = "ask" /\ exitCode' = exitCode
    /\ UNCHANGED <<API_KEY, ECHO, XDG, path, sys_prompt, outcome, llm, revised,
                   stdout, pasted, clipboard>>

\* line 216
AskLlm ==
    /\ pc = "ask"
    /\ \E out \in MainOutcomes :
        LET r == ask_llm(out)
        IN  /\ llm' = r.text
            /\ revised' = r.text
            /\ logs' = logs \o r.log
    /\ calls' = Append(calls, "curl")
    /\ pc' = "notify"
    /\ UNCHANGED <<API_KEY, ECHO, XDG, path, sys_prompt, src, outcome,
                   stdout, pasted, clipboard, exitCode>>

\* line 217
Notify ==
    /\ pc = "notify"
    /\ \E players \in SUBSET {"paplay", "aplay"}, soundFile \in BOOLEAN, launches \in BOOLEAN :
        calls' = calls \o play_notification_sound(players, soundFile, launches)
    /\ pc' = "echo"
    /\ UNCHANGED <<API_KEY, ECHO, XDG, path, sys_prompt, src, outcome, llm, revised,
                   logs, stdout, pasted, clipboard, exitCode>>

\* lines 219-224
Echo ==
    /\ pc = "echo"
    /\ revised' = fallback(revised, src)
    /\ logs' = IF blank(revised)
               THEN Append(logs, "LLM returned empty; fallback to source.") ELSE logs
    /\ IF ECHO
       THEN stdout' = stdout \o print(revised') /\ calls' = Append(calls, "print")
       ELSE UNCHANGED <<stdout, calls>>
    /\ pc' = "paste"
    /\ UNCHANGED <<API_KEY, ECHO, XDG, path, sys_prompt, src, outcome, llm,
                   pasted, clipboard, exitCode>>

\* lines 226-227, and the interpreter's exit 0 when main returns
Paste ==
    /\ pc = "paste"
    /\ LET p == paste(revised)
       IN  /\ pasted' = Append(pasted, revised)
           /\ clipboard' = clipboard \o p.writes
           /\ calls' = calls \o p.calls
           /\ logs' = logs \o p.log \o <<"Done.">>
    /\ Exit(0)
    /\ UNCHANGED <<API_KEY, ECHO, XDG, path, sys_prompt, src, outcome, llm, revised,
                   stdout>>

\* lines 231-235: KeyboardInterrupt raised while a step of main runs. No step
\* catches it (each catches Exception); the step's effect has not happened.
Interrupt ==
    /\ pc \in {"read_prompt", "capture", "ask", "notify", "echo", "paste"}
    /\ logs' = Append(logs, "Interrupted by user (SIGINT).")
    /\ Exit(130)
    /\ UNCHANGED <<API_KEY, ECHO, XDG, path, sys_prompt, src, outcome, llm, revised,
                   calls, stdout, pasted, clipboard>>

\* the same while paste's writer process already holds the text
InterruptInPaste ==
    /\ pc = "paste"
    /\ LET p == paste(revised)
       IN  /\ pasted' = Append(pasted, revised)
           /\ clipboard' = clipboard \o p.writes
           /\ calls' = calls \o p.calls
           /\ logs' = logs \o <<p.log[1], "Interrupted by user (SIGINT).">>
    /\ Exit(130)
    /\ UNCHANGED <<API_KEY, ECHO, XDG, path, sys_prompt, src, outcome, llm, revised,
                   stdout>>

Next ==
    \/ Start
    \/ ReadPrompt
    \/ Capture
    \/ AskLlm
    \/ Notify
    \/ Echo
    \/ Paste
    \/ Interrupt
    \/ InterruptInPaste

Spec == Init /\ [][Next]_vars

----------------------------------------------------------------------------
\* ask_llm alone, over every outcome of the call.

InitLlm ==
    /\ pc = "llm_call"
    /\ outcome \in CurlOutcomes
    /\ API_KEY = "sk"
    /\ ECHO = FALSE
    /\ XDG = "x11"
    /\ path = {}
    /\ sys_prompt = DefaultPrompt
    /\ src = <<"a">>
    /\ llm = <<>>
    /\ revised = <<>>
    /\ calls = <<>>
    /\ logs = <<>>
    /\ stdout = <<>>
    /\ pasted = <<>>
    /\ clipboard = <<>>
    /\ exitCode = -1

\* lines 101-149
ApplyAskLlm ==
    /\ pc = "llm_call"
    /\ llm' = ask_llm(outcome).text
    /\ logs' = ask_llm(outcome).log
    /\ calls' = <<"curl">>
    /\ pc' = "llm_done"
    /\ UNCHANGED <<API_KEY, ECHO, XDG, path, sys_prompt, src, outcome, revised,
                   stdout, pasted, clipboard, exitCode>>

NextLlm == ApplyAskLlm

SpecLlm == InitLlm /\ [][NextLlm]_vars

----------------------------------------------------------------------------
\* Properties.

Logged(tag) == \E i \in 1..Len(logs) : logs[i] = tag
Called(cmd) == \E i \in 1..Len(calls) : calls[i] = cmd

CaptureDone == Logged("Captured (X11)") \/ Logged("Captured (Wayland)")
WriteCalls == {"xclip clipboard -in", "wl-copy"}
ReadCalls == {"xclip primary -o", "xclip clipboard -o", "wl-paste", "wl-paste --primary"}
Players == {"paplay", "aplay"}

\* C1: whenever ask_llm has returned an empty or whitespace-only text (after a
\* timeout, a nonzero exit, malformed JSON, an unrecognised shape or empty
\* content, each of which returns the empty text), the text paste() is called
\* with is src itself, character for character.
C1_FallbackIsSource ==
    /\ (Logged("LLM error") \/ Logged("LLM response parse failed")) => llm = <<>>
    /\ (pasted # <<>> /\ blank(llm)) => pasted = <<src>>

C1_Witness ==
    /\ pasted = <<src>>
    /\ Logged("TIMEOUT") /\ Logged("LLM error")
    /\ llm = <<>>
    /\ src # strip(src)

\* C2: once capture has returned an empty or whitespace-only text, the run has
\* exited with code 0 and no remote call, no player launch, no echo and no
\* clipboard write has happened.
C2_NoSourceExitsZero ==
    (CaptureDone /\ strip(src) = <<>>) =>
        /\ pc = "exited" /\ exitCode = 0
        /\ Logged("No source text captured; abort.")
        /\ \A i \in 1..Len(calls) : calls[i] \in ReadCalls
        /\ pasted = <<>> /\ clipboard = <<>> /\ stdout = <<>>

C2_Witness ==
    /\ CaptureDone /\ src = <<" ">>
    /\ Len(calls) = 2
    /\ pc = "exited" /\ exitCode = 0

\* C3: with the API key unset or empty the run is either still at its first
\* step or has exited with code 1, and nothing has been read from the
\* clipboard, written to it, or sent to the remote service.
C3_MissingKeyExitsOne ==
    API_KEY \in {"<unset>", ""} =>
        /\ pc = "start" \/ (pc = "exited" /\ exitCode = 1)
        /\ calls = <<>> /\ pasted = <<>> /\ clipboard = <<>> /\ stdout = <<>>
        /\ src = <<>>

C3_Witness == API_KEY = "" /\ pc = "exited" /\ exitCode = 1

\* C4: the clipboard is written at most once; the write is the last external
\* action, after the remote call and after any player launch; the text written
\* is the text ask_llm returned or the captured text.
C4_SingleFinalWrite ==
    /\ Len(clipboard) <= 1 /\ Len(pasted) <= 1
    /\ Cardinality({i \in 1..Len(calls) : calls[i] \in WriteCalls}) = Len(clipboard)
    /\ clipboard # <<>> =>
        /\ calls[Len(calls)] \in WriteCalls
        /\ \E i \in 1..(Len(calls) - 1) : calls[i] = "curl"
        /\ clipboard[1] \in {llm, src}
        /\ clipboard = pasted
        /\ pc = "exited"

C4_Witness ==
    /\ clipboard # <<>> /\ clipboard[1] = llm /\ llm # src
    /\ \E i \in 1..Len(calls) : calls[i] \in Players

\* C5: for every content string t, ask_llm returns the same text for
\* {"text": t}, for an output list whose only output_text block carries t, and
\* for a choices list whose first choice's message content is t.
OutputCarries(o, t) ==
    /\ o.k = "list"
    /\ ~output_raises(o.v)
    /\ output_chunks(o.v) = <<Str(t)>>

C5_SameTextForShapes ==
    pc = "llm_done" =>
        \A t \in Strings :
            /\ outcome = TextShape(t) =>
                /\ llm = ask_llm(OutputShape(t)).text
                /\ llm = ask_llm(ChoicesShape(t)).text
            /\ (/\ outcome.k = "ok" /\ outcome.body.k = "dict"
                /\ outcome.body.text = Absent /\ outcome.body.choices = Absent
                /\ OutputCarries(outcome.body.output, t)) =>
                /\ llm = ask_llm(TextShape(t)).text
                /\ llm = ask_llm(ChoicesShape(t)).text
            /\ outcome = ChoicesShape(t) =>
                /\ llm = ask_llm(TextShape(t)).text
                /\ llm = ask_llm(OutputShape(t)).text

C5_Witness ==
    /\ pc = "llm_done"
    /\ outcome = OutputShape(<<" ", "a">>)
    /\ llm = <<"a">>

\* Whether a shape of the response carries non-blank text.
TextCarries(d) == d.text.k = "str" /\ strip(d.text.v) # <<>>
OutputHasText(d) ==
    /\ d.output.k = "list"
    /\ ~output_raises(d.output.v)
    /\ output_text(d.output.v) # <<>>
ChoicesCarries(d) == d.choices.k = "list" /\ strip(d.choices.v) # <<>>

ParsedDict == pc = "llm_done" /\ outcome.k = "ok" /\ outcome.body.k = "dict"

\* C6 as stated: the text of the first shape that carries text is returned, and
\* the empty text is returned only when none of the three shapes carries text.
C6_FirstShapeWithText ==
    ParsedDict =>
        LET d == outcome.body
        IN  /\ TextCarries(d) => llm = strip(d.text.v)
            /\ (~TextCarries(d) /\ OutputHasText(d)) => llm = output_text(d.output.v)
            /\ (~TextCarries(d) /\ ~OutputHasText(d) /\ ChoicesCarries(d)) =>
                    llm = strip(d.choices.v)
            /\ llm = <<>> =>
                    ~TextCarries(d) /\ ~OutputHasText(d) /\ ChoicesCarries(d) = FALSE

\* C6 amended: the plain-text field is returned when it is a non-blank string;
\* otherwise an output field that is a list decides the result, which is the
\* joined text of its output_text blocks, empty when there is none or the list
\* is malformed, and the choices are not consulted; the first choice's content
\* is returned only when no output list is present; the raw body is logged
\* exactly when no shape is present.
C6_FirstShapePresent ==
    ParsedDict =>
        LET d == outcome.body
        IN  /\ TextCarries(d) => llm = strip(d.text.v)
            /\ (~TextCarries(d) /\ d.output.k = "list") =>
                    /\ llm = IF OutputHasText(d) THEN output_text(d.output.v) ELSE <<>>
                    /\ ~Logged("LLM text (/chat)")
            /\ (~TextCarries(d) /\ d.output.k # "list" /\ ChoicesCarries(d)) =>
                    llm = strip(d.choices.v)
            /\ Logged("LLM response parse failed") <=>
                    /\ ~TextCarries(d)
                    /\ d.output.k # "list"
                    /\ d.choices.k \in {"absent", "empty"}
            /\ Logged("LLM response parse failed") => llm = <<>>

C6_Witness ==
    /\ ParsedDict
    /\ outcome.body.text = Absent
    /\ outcome.body.output = [k |-> "list", v |-> <<>>]
    /\ outcome.body.choices = [k |-> "list", v |-> <<"a">>]
    /\ llm = <<>>
    /\ ~Logged("LLM response parse failed")

\* C7 as stated, where the fallback family's tool exists: a wayland session
\* without wl-paste reads through xclip, and a session that is not wayland
\* and has no xclip reads through wl-paste.
C7_FallbackBothWays ==
    CaptureDone =>
        /\ (session = "wayland" /\ "wl-paste" \notin path /\ "xclip" \in path) =>
                Called("xclip primary -o")
        /\ (session # "wayland" /\ "xclip" \notin path /\ "wl-paste" \in path) =>
                Called("wl-paste")

\* C7 amended: a wayland session without wl-paste runs the X11 sequence
\* (primary first, then the clipboard only if a second read happens); a
\* session that is not wayland runs the X11 sequence only and never reads
\* through wl-paste, so that without xclip nothing is read and the captured
\* text is empty.
C7_FallbackToX11Only ==
    CaptureDone =>
        /\ (session = "wayland" /\ "wl-paste" \notin path) =>
                /\ Logged("Captured (X11)") /\ ~Logged("Captured (Wayland)")
                /\ "xclip" \in path =>
                    /\ calls[1] = "xclip primary -o"
                    /\ (Len(calls) >= 2 /\ calls[2] \in ReadCalls) =>
                            calls[2] = "xclip clipboard -o"
                    /\ strip(src) = <<>> => Called("xclip clipboard -o")
        /\ session # "wayland" =>
                /\ Logged("Captured (X11)") /\ ~Logged("Captured (Wayland)")
                /\ ~Called("wl-paste") /\ ~Called("wl-paste --primary")
                /\ "xclip" \notin path => (src = <<>> /\ calls = <<>>)

C7_Witness ==
    /\ CaptureDone
    /\ session = "wayland" /\ "wl-paste" \notin path /\ "xclip" \in path
    /\ Called("xclip primary -o") /\ Called("xclip clipboard -o")
    /\ strip(src) # <<>>

\* C8 as stated: with the echo flag on, standard output holds exactly the text
\* paste() is called with, written before the clipboard write; with the flag
\* off standard output stays empty.
C8_EchoExact ==
    /\ ~ECHO => stdout = <<>>
    /\ (ECHO /\ pasted # <<>>) =>
        /\ stdout = pasted[1]
        /\ \E i \in 1..Len(calls) : calls[i] = "print"
                /\ \A j \in 1..Len(calls) : calls[j] \in WriteCalls => i < j

\* C8 amended: with the echo flag on, standard output holds the text paste()
\* is called with followed by one newline, written before the clipboard write;
\* with the flag off standard output stays empty.
C8_EchoWithNewline ==
    /\ ~ECHO => stdout = <<>>
    /\ (ECHO /\ pc = "paste") => stdout = revised \o <<NL>>
    /\ (ECHO /\ pasted # <<>>) =>
        /\ stdout = pasted[1] \o <<NL>>
        /\ \E i \in 1..Len(calls) : calls[i] = "print"
                /\ \A j \in 1..Len(calls) : calls[j] \in WriteCalls => i < j

C8_Witness ==
    /\ ECHO /\ pasted # <<>> /\ clipboard # <<>>
    /\ stdout = pasted[1] \o <<NL>>

\* C9 as stated: a finished run has exit code 0, 1 or 130; 1 exactly when the
\* API key is missing, 130 exactly when an interrupt arrived (and was logged),
\* 0 otherwise.
C9_ExitCodes ==
    pc = "exited" =>
        /\ exitCode \in {0, 1, 130}
        /\ exitCode = 1 <=> API_KEY \in {"<unset>", ""}
        /\ exitCode = 130 <=> Logged("Interrupted by user (SIGINT).")
        /\ exitCode = 130 => logs[Len(logs)] = "Interrupted by user (SIGINT)."

\* C10: every text paste() is called with, and every text written to the
\* clipboard, holds a character that is not whitespace.
C10_PasteNonBlank ==
    /\ \A i \in 1..Len(pasted) : strip(pasted[i]) # <<>>
    /\ \A i \in 1..Len(clipboard) : strip(clipboard[i]) # <<>>

C10_Witness ==
    /\ pasted # <<>> /\ clipboard # <<>>
    /\ llm = <<>> /\ Logged("LLM text (/responses)")

====
